---- MODULE Spec2Model ----
(***************************************************************************)
(* A model of check_schengen.py: one scheduled run after another of the    *)
(* slot watcher (fetch, extract, detect, notify, persist), with the state  *)
(* file as the only memory between runs, and the name normalizer as a      *)
(* function over strings of characters.                                    *)
(*                                                                         *)
(* Strings that the program only compares (status texts, credentials) are  *)
(* TLA+ strings.  Strings that the program takes apart character by        *)
(* character (entity names, TARGET_COUNTRIES) are sequences of characters, *)
(* a character being a one-element name: "c", "C", " ", ",", "flag" (a     *)
(* pictographic character), "Idot" (U+0130, capital I with dot above),     *)
(* "cdot" (U+0307, the combining dot above).                               *)
(*                                                                         *)
(* The file system is taken to work: reading and writing STATE_FILE and    *)
(* rendered.html raise nothing.  The network may fail at every request.    *)
(***************************************************************************)
EXTENDS Integers, Sequences, FiniteSets, TLC

VARIABLES
    pc,                 \* position of the current run
    TARGET_COUNTRIES,   \* environment, read at import (line 15)
    TELEGRAM_TOKEN,     \* environment (line 16)
    CHAT_ID,            \* environment (line 17)
    stateFile,          \* content of STATE_FILE on disk
    startFile,          \* content of STATE_FILE when the run started
    targets,            \* check_slot's list of normalized targets
    all_rows,           \* soup.find_all("tr")
    idx,                \* position of the for loop in all_rows (1-based)
    last_state,         \* check_slot's in-memory state
    found_any,          \* check_slot's flag
    exitCode,           \* exit status of the process
    raised,             \* the exception that ended check_slot, or "none"
    gets,               \* HTTP GETs issued by get_soup in this run
    calls,              \* per row: calls of send_telegram
    posts,              \* per row: HTTP POSTs issued by send_telegram
    delivered,          \* per row: POSTs answered 2xx
    npc, nx, nvar, k1, kvar, k2   \* the normalizer's harness

runVars == <<pc, TARGET_COUNTRIES, TELEGRAM_TOKEN, CHAT_ID, stateFile, startFile,
             targets, all_rows, idx, last_state, found_any, exitCode, raised,
             gets, calls, posts, delivered>>
normVars == <<npc, nx, nvar, k1, kvar, k2>>
vars == <<runVars, normVars>>

---------------------------------------------------------------------------
(* Bounds *)

MaxRows == 2        \* <tr> rows of a fetched page
MaxLen == 2         \* characters of a name given to the normalizer
MaxDecor == 1       \* decorative characters added to a name

---------------------------------------------------------------------------
(* Characters: str.isalpha, str.isspace, str.lower *)

LowerLetters == {"c", "y", "i", "t"}
UpperLetters == {"C", "Y", "I", "T", "Idot"}
Decorations == {"1", "-", "flag", "cdot", ","}
Spaces == {" "}
Chars == LowerLetters \cup UpperLetters \cup Decorations \cup Spaces

isalpha(ch) == ch \in LowerLetters \cup UpperLetters

isspace(ch) == ch \in Spaces

\* str.lower() of one character.  U+0130 lowers to two characters, "i" and
\* the combining dot U+0307 (Unicode SpecialCasing), the second of which is
\* no letter.
LowerCh(ch) ==
    CASE ch = "C" -> <<"c">>
      [] ch = "Y" -> <<"y">>
      [] ch = "I" -> <<"i">>
      [] ch = "T" -> <<"t">>
      [] ch = "Idot" -> <<"i", "cdot">>
      [] OTHER -> <<ch>>

RECURSIVE lower(_)
lower(s) == IF s = <<>> THEN <<>> ELSE LowerCh(Head(s)) \o lower(Tail(s))

RECURSIVE lstrip(_)
lstrip(s) == IF s # <<>> /\ isspace(Head(s)) THEN lstrip(Tail(s)) ELSE s

RECURSIVE rstrip(_)
rstrip(s) ==
    IF s # <<>> /\ isspace(s[Len(s)]) THEN rstrip(SubSeq(s, 1, Len(s) - 1)) ELSE s

\* str.strip()
strip(s) == rstrip(lstrip(s))

\* "".join(ch for ch in raw_name if ch.isalpha() or ch.isspace())
KeepLetters(s) == SelectSeq(s, LAMBDA ch : isalpha(ch) \/ isspace(ch))


\* normalize_country_name
normalize_country_name(raw_name) == strip(KeepLetters(raw_name))

\* normalize_country_name(x).lower(): the key under which an entity is
\* matched and stored
Key(raw_name) == lower(normalize_country_name(raw_name))

\* str.split(","): the pieces between the commas, empty pieces included
RECURSIVE SplitFrom(_, _)
SplitFrom(s, piece) ==
    IF s = <<>> THEN <<piece>>
    ELSE IF Head(s) = "," THEN <<piece>> \o SplitFrom(Tail(s), <<>>)
    ELSE SplitFrom(Tail(s), Append(piece, Head(s)))

split(s) == SplitFrom(s, <<>>)

\* [c.strip() for c in pieces]
RECURSIVE StripAll(_)
StripAll(pieces) ==
    IF pieces = <<>> THEN <<>> ELSE <<strip(Head(pieces))>> \o StripAll(Tail(pieces))

\* raw_list = [c.strip() for c in TARGET_COUNTRIES.split(",") if c.strip()]
RawList(env) == SelectSeq(StripAll(split(env)), LAMBDA c : c # <<>>)

\* [normalize_country_name(rc).lower() for rc in raw_list]
RECURSIVE KeyAll(_)
KeyAll(raw_list) ==
    IF raw_list = <<>> THEN <<>> ELSE <<Key(Head(raw_list))>> \o KeyAll(Tail(raw_list))

\* targets = [normalize_country_name(rc).lower() for rc in raw_list]
Targets(env) == KeyAll(RawList(env))

InList(x, list) == \E i \in 1..Len(list) : list[i] = x

---------------------------------------------------------------------------
(* The state file and the in-memory state *)

\* A Python value json.load can return: a dict (kind "dict", its items in
\* map) or any other JSON value (kind "other": a list, a number, a string,
\* null), which supports no assignment by string key.
EmptyMap == [k \in {} |-> ""]
EmptyDict == [kind |-> "dict", map |-> EmptyMap]
NonDict == [kind |-> "other", map |-> EmptyMap]

\* The content of STATE_FILE: absent, text that is no JSON ("garbage"), or
\* the JSON text of a value.
Absent == [kind |-> "absent", val |-> EmptyDict]
Garbage == [kind |-> "garbage", val |-> EmptyDict]
JsonText(v) == [kind |-> "json", val |-> v]

\* load_last_state
load_last_state(file) ==
    IF file.kind = "absent" THEN EmptyDict
    ELSE IF file.kind = "json" THEN file.val
    ELSE EmptyDict

\* A save that leaves a partial write behind
SaveTruncated(state) == Garbage

\* save_last_state: json.dump(state, f) over the whole file
save_last_state(state) == JsonText(state)

\* An update that keeps the status an entity already has
SetItemKeepOld(d, k, v) ==
    IF k \in DOMAIN d.map THEN d
    ELSE [d EXCEPT !.map = [x \in DOMAIN d.map \cup {k} |-> IF x = k THEN v ELSE d.map[x]]]

\* last_state[norm_country] = earliest_text, on a dict
SetItem(d, k, v) ==
    [d EXCEPT !.map = [x \in DOMAIN d.map \cup {k} |-> IF x = k THEN v ELSE d.map[x]]]

\* last_state[norm_country] = earliest_text raises TypeError on anything
\* but a dict
SetItemRaises(d) == d.kind # "dict"

HasItem(d, k) == d.kind = "dict" /\ k \in DOMAIN d.map

---------------------------------------------------------------------------
(* The decision and the sender *)

NoAvailability == "No availability"
WaitlistOpen == "Waitlist Open"

\* A test that forgets the waitlist sentinel
ActionableExceptUnavailable(earliest_text) ==
    earliest_text # "" /\ earliest_text # NoAvailability

\* earliest_text and earliest_text not in ("No availability", "Waitlist Open")
Actionable(earliest_text) ==
    earliest_text # "" /\ earliest_text \notin {NoAvailability, WaitlistOpen}

\* A decision that compares with the loaded state: notify on change only
NotifyOnChange(state, k, earliest_text) ==
    Actionable(earliest_text) /\ ~(HasItem(state, k) /\ state.map[k] = earliest_text)

\* The condition under which check_slot calls send_telegram for a matched
\* row: the status alone decides, last_state is not read.
Notify(state, k, earliest_text) == Actionable(earliest_text)

\* Answers of the notification API to one POST
Responses == {"200", "403", "neterr"}
Is2xx(resp) == resp = "200"

\* A sender that posts without looking at the credentials first
SendTelegramNoCredCheck(token, chat, resp) ==
    IF Is2xx(resp) /\ token # "" /\ chat # ""
    THEN [posts |-> 1, delivered |-> 1, exc |-> "none"]
    ELSE [posts |-> 1, delivered |-> 0, exc |-> "RequestException"]

\* A sender that posts a second time when the first POST fails
SendTelegramRetry(token, chat, resp) ==
    IF token = "" \/ chat = ""
    THEN [posts |-> 0, delivered |-> 0, exc |-> "RuntimeError"]
    ELSE IF Is2xx(resp)
    THEN [posts |-> 1, delivered |-> 1, exc |-> "none"]
    ELSE [posts |-> 2, delivered |-> 0, exc |-> "RequestException"]

\* send_telegram: the POSTs it issues, the deliveries, and the exception it
\* raises, when the API answers resp
send_telegram(token, chat, resp) ==
    IF token = "" \/ chat = ""
    THEN [posts |-> 0, delivered |-> 0, exc |-> "RuntimeError"]
    ELSE IF Is2xx(resp)
    THEN [posts |-> 1, delivered |-> 1, exc |-> "none"]
    ELSE [posts |-> 1, delivered |-> 0, exc |-> "RequestException"]

---------------------------------------------------------------------------
(* What a run can meet: environment, page, state file *)

\* TARGET_COUNTRIES: "Cy, It" (two entities) and "," (no entity)
TargetCountriesValues == { <<"C", "y", ",", " ", "I", "t">>, <<",">> }
TokenValues == {"", "tok"}
ChatIdValues == {"", "chat"}

\* The text inside a row's <th>: two tracked entities, written with other
\* case, a pictograph and a leading space, and an entity that is not tracked
TrackedThTexts == { <<"C", "Y", " ", "flag">>, <<" ", "I", "t">> }
OtherThText == <<"T", "i">>

\* The text inside a row's <span class="font-bold">
SpanTexts == {NoAvailability, WaitlistOpen, "03 Jun"}

\* A <tr>: its <th> (if any) and its bold span (if any).  The rows of
\* tracked entities come with every status; one row of another entity and
\* one row without <th> stand for the rows the loop passes over.
Rows ==
    [hasTh : {TRUE}, th : TrackedThTexts, hasSpan : {TRUE}, span : SpanTexts]
    \cup [hasTh : {TRUE}, th : TrackedThTexts, hasSpan : {FALSE}, span : {""}]
    \cup [hasTh : {TRUE}, th : {OtherThText}, hasSpan : {TRUE}, span : {"03 Jun"}]
    \cup [hasTh : {FALSE}, th : {<<>>}, hasSpan : {TRUE}, span : {"03 Jun"}]

Pages == UNION { [1..n -> Rows] : n \in 0..MaxRows }

\* A state file left by something else than this program: none, text that
\* is no JSON, a JSON list, and a JSON object with a number in it
JNum == "<number>"
InitialFiles ==
    { Absent, Garbage, JsonText(NonDict),
      JsonText([kind |-> "dict", map |-> (<<"c", "y">> :> JNum)]) }

\* th.get_text(strip=True)
GetText(text) == strip(text)

\* norm_country = normalize_country_name(raw_country).lower()
NormCountry(row) == Key(GetText(row.th))

\* earliest_text = span.get_text(strip=True) if span else ""
EarliestText(row) == IF row.hasSpan THEN row.span ELSE ""

\* A match against the first target alone
MatchedFirstTargetOnly(row, tgts) == row.hasTh /\ NormCountry(row) = tgts[1]

\* th is present and norm_country in targets
Matched(row, tgts) == row.hasTh /\ InList(NormCountry(row), tgts)

\* __main__: exit(1) on any exception of check_slot, 0 otherwise
ExitCodeOf(exc) == IF exc = "none" THEN 0 ELSE 1

Zeros(n) == [i \in 1..n |-> 0]

---------------------------------------------------------------------------
(* The run *)

Init ==
    /\ pc = "idle"
    /\ TARGET_COUNTRIES = <<>>
    /\ TELEGRAM_TOKEN = ""
    /\ CHAT_ID = ""
    /\ stateFile \in InitialFiles
    /\ startFile = Absent
    /\ targets = <<>>
    /\ all_rows = <<>>
    /\ idx = 0
    /\ last_state = EmptyDict
    /\ found_any = FALSE
    /\ exitCode = 0
    /\ raised = "none"
    /\ gets = 0
    /\ calls = <<>>
    /\ posts = <<>>
    /\ delivered = <<>>
    /\ npc = "off" /\ nx = <<>> /\ nvar = <<>> /\ k1 = <<>> /\ kvar = <<>> /\ k2 = <<>>

\* An exception leaves check_slot: __main__ prints it and exits
Raise(exc) ==
    /\ raised' = exc
    /\ exitCode' = ExitCodeOf(exc)
    /\ pc' = "exit"

\* The scheduler starts the program: the module reads its environment
StartRun ==
    /\ pc = "idle"
    /\ TARGET_COUNTRIES' \in TargetCountriesValues
    /\ TELEGRAM_TOKEN' \in TokenValues
    /\ CHAT_ID' \in ChatIdValues
    /\ startFile' = stateFile
    /\ pc' = "check_slot"
    /\ UNCHANGED <<stateFile, targets, all_rows, idx, last_state, found_any,
                   exitCode, raised, gets, calls, posts, delivered>>
    /\ UNCHANGED normVars

\* check_slot, lines 88-95
BuildTargets ==
    /\ pc = "check_slot"
    /\ targets' = Targets(TARGET_COUNTRIES)
    /\ IF targets' = <<>>
       THEN Raise("RuntimeError")
       ELSE /\ pc' = "get_soup"
            /\ UNCHANGED <<raised, exitCode>>
    /\ UNCHANGED <<TARGET_COUNTRIES, TELEGRAM_TOKEN, CHAT_ID, stateFile, startFile,
                   all_rows, idx, last_state, found_any, gets, calls, posts, delivered>>
    /\ UNCHANGED normVars

\* get_soup with rendered.html present, then find_all("tr")
GetSoupSnapshot ==
    /\ pc = "get_soup"
    /\ all_rows' \in Pages
    /\ pc' = "load"
    /\ UNCHANGED <<TARGET_COUNTRIES, TELEGRAM_TOKEN, CHAT_ID, stateFile, startFile,
                   targets, idx, last_state, found_any, exitCode, raised, gets,
                   calls, posts, delivered>>
    /\ UNCHANGED normVars

\* get_soup without rendered.html: one GET, raise_for_status, then
\* find_all("tr")
GetSoupHttp ==
    /\ pc = "get_soup"
    /\ gets' = gets + 1
    /\ \E resp \in Responses :
         IF Is2xx(resp)
         THEN /\ all_rows' \in Pages
              /\ pc' = "load"
              /\ UNCHANGED <<raised, exitCode>>
         ELSE /\ Raise("RequestException")
              /\ UNCHANGED all_rows
    /\ UNCHANGED <<TARGET_COUNTRIES, TELEGRAM_TOKEN, CHAT_ID, stateFile, startFile,
                   targets, idx, last_state, found_any, calls, posts, delivered>>
    /\ UNCHANGED normVars

\* check_slot, lines 113-117
LoadLastState ==
    /\ pc = "load"
    /\ last_state' = load_last_state(stateFile)
    /\ found_any' = FALSE
    /\ idx' = 1
    /\ calls' = Zeros(Len(all_rows))
    /\ posts' = Zeros(Len(all_rows))
    /\ delivered' = Zeros(Len(all_rows))
    /\ pc' = "loop"
    /\ UNCHANGED <<TARGET_COUNTRIES, TELEGRAM_TOKEN, CHAT_ID, stateFile, startFile,
                   targets, all_rows, exitCode, raised, gets>>
    /\ UNCHANGED normVars

\* One turn of the for loop on a row without <th> or of an entity that is
\* not tracked
SkipRow ==
    /\ pc = "loop"
    /\ idx <= Len(all_rows)
    /\ ~Matched(all_rows[idx], targets)
    /\ idx' = idx + 1
    /\ UNCHANGED <<pc, TARGET_COUNTRIES, TELEGRAM_TOKEN, CHAT_ID, stateFile, startFile,
                   targets, all_rows, last_state, found_any, exitCode, raised, gets,
                   calls, posts, delivered>>
    /\ UNCHANGED normVars

\* One turn of the for loop on a row of a tracked entity, lines 127-148
EvalRow ==
    /\ pc = "loop"
    /\ idx <= Len(all_rows)
    /\ Matched(all_rows[idx], targets)
    /\ found_any' = TRUE
    /\ LET row == all_rows[idx]
           norm_country == NormCountry(row)
           earliest_text == EarliestText(row)
       IN  IF Notify(last_state, norm_country, earliest_text)
           THEN \E resp \in Responses :
                  LET sent == send_telegram(TELEGRAM_TOKEN, CHAT_ID, resp)
                  IN  /\ calls' = [calls EXCEPT ![idx] = @ + 1]
                      /\ posts' = [posts EXCEPT ![idx] = @ + sent.posts]
                      /\ delivered' = [delivered EXCEPT ![idx] = @ + sent.delivered]
                      /\ IF sent.exc # "none"
                         THEN Raise(sent.exc) /\ UNCHANGED <<last_state, idx>>
                         ELSE IF SetItemRaises(last_state)
                         THEN Raise("TypeError") /\ UNCHANGED <<last_state, idx>>
                         ELSE /\ last_state' = SetItem(last_state, norm_country, earliest_text)
                              /\ idx' = idx + 1
                              /\ UNCHANGED <<pc, raised, exitCode>>
           ELSE /\ UNCHANGED <<calls, posts, delivered>>
                /\ IF SetItemRaises(last_state)
                   THEN Raise("TypeError") /\ UNCHANGED <<last_state, idx>>
                   ELSE /\ last_state' = SetItem(last_state, norm_country, earliest_text)
                        /\ idx' = idx + 1
                        /\ UNCHANGED <<pc, raised, exitCode>>
    /\ UNCHANGED <<TARGET_COUNTRIES, TELEGRAM_TOKEN, CHAT_ID, stateFile, startFile,
                   targets, all_rows, gets>>
    /\ UNCHANGED normVars

\* An end of loop that raises when no tracked entity was found
EndLoopStrict ==
    /\ pc = "loop"
    /\ idx > Len(all_rows)
    /\ IF found_any
       THEN /\ stateFile' = save_last_state(last_state)
            /\ exitCode' = ExitCodeOf("none")
            /\ pc' = "exit"
            /\ UNCHANGED raised
       ELSE Raise("RuntimeError") /\ UNCHANGED stateFile
    /\ UNCHANGED <<TARGET_COUNTRIES, TELEGRAM_TOKEN, CHAT_ID, startFile, targets,
                   all_rows, idx, last_state, found_any, gets, calls, posts, delivered>>
    /\ UNCHANGED normVars

\* After the loop, lines 150-154: a total miss is only printed, the state is
\* saved, check_slot returns and the process exits with 0
EndLoop ==
    /\ pc = "loop"
    /\ idx > Len(all_rows)
    /\ stateFile' = save_last_state(last_state)
    /\ exitCode' = ExitCodeOf("none")
    /\ pc' = "exit"
    /\ UNCHANGED <<TARGET_COUNTRIES, TELEGRAM_TOKEN, CHAT_ID, startFile, targets,
                   all_rows, idx, last_state, found_any, raised, gets, calls, posts,
                   delivered>>
    /\ UNCHANGED normVars

\* The process is gone; nothing but the state file outlives it
ProcessExit ==
    /\ pc = "exit"
    /\ pc' = "idle"
    /\ TARGET_COUNTRIES' = <<>>
    /\ TELEGRAM_TOKEN' = ""
    /\ CHAT_ID' = ""
    /\ startFile' = Absent
    /\ targets' = <<>>
    /\ all_rows' = <<>>
    /\ idx' = 0
    /\ last_state' = EmptyDict
    /\ found_any' = FALSE
    /\ exitCode' = 0
    /\ raised' = "none"
    /\ gets' = 0
    /\ calls' = <<>>
    /\ posts' = <<>>
    /\ delivered' = <<>>
    /\ UNCHANGED stateFile
    /\ UNCHANGED normVars

Next ==
    \/ StartRun
    \/ BuildTargets
    \/ GetSoupSnapshot
    \/ GetSoupHttp
    \/ LoadLastState
    \/ SkipRow
    \/ EvalRow
    \/ EndLoop
    \/ ProcessExit

Spec == Init /\ [][Next]_vars

---------------------------------------------------------------------------
(* The normalizer on its own: a name, a variant of it that differs in      *)
(* letter case and in decorative characters, and the key applied once and  *)
(* twice                                                                   *)

Names == UNION { [1..n -> Chars] : n \in 0..MaxLen }

CasePairs == { <<"c", "C">>, <<"y", "Y">>, <<"i", "I">>, <<"t", "T">> }

SwapCh(ch) ==
    IF \E p \in CasePairs : p[1] = ch
    THEN (CHOOSE p \in CasePairs : p[1] = ch)[2]
    ELSE IF \E p \in CasePairs : p[2] = ch
    THEN (CHOOSE p \in CasePairs : p[2] = ch)[1]
    ELSE ch

InsertAt(s, pos, ch) == SubSeq(s, 1, pos) \o <<ch>> \o SubSeq(s, pos + 1, Len(s))

InitNorm ==
    /\ pc = "off"
    /\ TARGET_COUNTRIES = <<>>
    /\ TELEGRAM_TOKEN = ""
    /\ CHAT_ID = ""
    /\ stateFile = Absent
    /\ startFile = Absent
    /\ targets = <<>>
    /\ all_rows = <<>>
    /\ idx = 0
    /\ last_state = EmptyDict
    /\ found_any = FALSE
    /\ exitCode = 0
    /\ raised = "none"
    /\ gets = 0
    /\ calls = <<>>
    /\ posts = <<>>
    /\ delivered = <<>>
    /\ npc = "input"
    /\ nx \in Names
    /\ nvar = nx
    /\ k1 = <<>> /\ kvar = <<>> /\ k2 = <<>>

\* The variant gets one more decorative character
Decorate ==
    /\ npc = "input"
    /\ Len(nvar) < Len(nx) + MaxDecor
    /\ \E pos \in 0..Len(nvar), ch \in Decorations : nvar' = InsertAt(nvar, pos, ch)
    /\ UNCHANGED <<npc, nx, k1, kvar, k2>>
    /\ UNCHANGED runVars

\* One letter of the variant changes case
SwapCase ==
    /\ npc = "input"
    /\ \E pos \in 1..Len(nvar) :
         /\ SwapCh(nvar[pos]) # nvar[pos]
         /\ nvar' = [nvar EXCEPT ![pos] = SwapCh(@)]
    /\ UNCHANGED <<npc, nx, k1, kvar, k2>>
    /\ UNCHANGED runVars

\* The key of the name and of its variant
NormalizeOnce ==
    /\ npc = "input"
    /\ k1' = Key(nx)
    /\ kvar' = Key(nvar)
    /\ npc' = "once"
    /\ UNCHANGED <<nx, nvar, k2>>
    /\ UNCHANGED runVars

\* The key of the key
NormalizeTwice ==
    /\ npc = "once"
    /\ k2' = Key(k1)
    /\ npc' = "twice"
    /\ UNCHANGED <<nx, nvar, k1, kvar>>
    /\ UNCHANGED runVars

NextNorm ==
    \/ Decorate
    \/ SwapCase
    \/ NormalizeOnce
    \/ NormalizeTwice

SpecNorm == InitNorm /\ [][NextNorm]_vars

---------------------------------------------------------------------------
(* Vocabulary of the properties, read off the page and the counters of the *)
(* current run                                                             *)

RowIdx == DOMAIN calls

RowKeyAt(i) == lower(strip(KeepLetters(strip(all_rows[i].th))))

RowTextAt(i) == IF all_rows[i].hasSpan THEN all_rows[i].span ELSE ""

\* Row i is the row of a tracked entity
TrackedRow(i) ==
    /\ all_rows[i].hasTh
    /\ \E j \in 1..Len(targets) : targets[j] = RowKeyAt(i)

IsSentinelOrEmpty(text) == text \in {"", "No availability", "Waitlist Open"}

IsActionable(text) == ~IsSentinelOrEmpty(text)

\* The loop has entered row i
Reached(i) == i < idx \/ (pc = "exit" /\ i = idx)

\* No later row of the page is about the same entity
LastRowOf(i) ==
    ~\E j \in RowIdx : j > i /\ TrackedRow(j) /\ RowKeyAt(j) = RowKeyAt(i)

\* The state the run loaded
Persisted == load_last_state(startFile)

PersistedIs(k, text) == HasItem(Persisted, k) /\ Persisted.map[k] = text

\* The state the next run will load
NextLoads == load_last_state(stateFile)

FetchedOk == idx >= 1

ExitedWith(code) == pc = "exit" /\ exitCode = code

Failed == pc = "exit" /\ exitCode # 0

MissingCredentials == TELEGRAM_TOKEN = "" \/ CHAT_ID = ""

---------------------------------------------------------------------------
(* C1 *)

\* C1: a row of a tracked entity whose status is "No availability",
\* "Waitlist Open" or empty never leads to a call of send_telegram, a POST
\* or a delivery for that row, whatever state was persisted before.
C1_SentinelSuppression ==
    \A i \in RowIdx :
        TrackedRow(i) /\ IsSentinelOrEmpty(RowTextAt(i))
            => calls[i] = 0 /\ posts[i] = 0 /\ delivered[i] = 0

\* A finished run passed a tracked "Waitlist Open" row whose persisted
\* status was a date, and a tracked row without status, sending nothing.
C1_Witness ==
    /\ ExitedWith(0)
    /\ \E i \in RowIdx :
         /\ TrackedRow(i)
         /\ RowTextAt(i) = "Waitlist Open"
         /\ PersistedIs(RowKeyAt(i), "03 Jun")
         /\ calls[i] = 0
    /\ \E i \in RowIdx : TrackedRow(i) /\ RowTextAt(i) = "" /\ calls[i] = 0

---------------------------------------------------------------------------
(* C2 *)

\* C2 as claimed: at the end of every run, each row of a tracked entity
\* with an actionable status has had its send.  (Runs ended by the
\* TypeError of the state update are left aside.)
C2_EveryActionableRowSent ==
    pc = "exit" /\ raised # "TypeError"
        => \A i \in RowIdx :
              TrackedRow(i) /\ IsActionable(RowTextAt(i)) => calls[i] = 1

\* C2 amended: every row of a tracked entity with an actionable status that
\* the loop reaches gets exactly one call of send_telegram, whether or not
\* the persisted status equals the observed one; rows after a row that
\* raised are not reached.  A run that exits with 0 has delivered one
\* notification for each such row.
C2_LevelTriggered ==
    \A i \in RowIdx :
        TrackedRow(i) /\ IsActionable(RowTextAt(i))
            => /\ Reached(i) => calls[i] = 1
               /\ ExitedWith(0) => calls[i] = 1 /\ delivered[i] = 1

\* A finished run delivered a notification for a status equal to the
\* persisted one.
C2_Witness ==
    /\ ExitedWith(0)
    /\ \E i \in RowIdx :
         /\ TrackedRow(i)
         /\ RowTextAt(i) = "03 Jun"
         /\ PersistedIs(RowKeyAt(i), "03 Jun")
         /\ delivered[i] = 1

---------------------------------------------------------------------------
(* C3 *)

\* C3 as claimed: send_telegram is called for a row only when its status is
\* actionable and differs from the status persisted for the entity.
C3_EdgeTriggered ==
    \A i \in RowIdx :
        calls[i] >= 1
            => /\ IsActionable(RowTextAt(i))
               /\ ~PersistedIs(RowKeyAt(i), RowTextAt(i))

\* C3 amended: there is no edge-triggered mode.  A reached row of a tracked
\* entity with an actionable status gets its call of send_telegram also when
\* the status equals the persisted one; in a run that exits with 0 exactly
\* one notification was posted and delivered for each such row, and the
\* saved state maps the entity to the status of its last row: it takes a
\* new status and keeps an unchanged one.
C3_NotifiesAlsoWhenUnchanged ==
    \A i \in RowIdx :
        TrackedRow(i) /\ IsActionable(RowTextAt(i))
            => /\ Reached(i) /\ PersistedIs(RowKeyAt(i), RowTextAt(i)) => calls[i] = 1
               /\ ExitedWith(0) =>
                    /\ posts[i] = 1 /\ delivered[i] = 1
                    /\ LastRowOf(i) =>
                         /\ HasItem(NextLoads, RowKeyAt(i))
                         /\ NextLoads.map[RowKeyAt(i)] = RowTextAt(i)

\* A finished run met one entity whose status had changed from "No
\* availability" to "03 Jun" and one whose status was "03 Jun" as before,
\* and delivered a notification for each.
C3_Witness ==
    /\ ExitedWith(0)
    /\ \E i, j \in RowIdx :
         /\ TrackedRow(i) /\ TrackedRow(j)
         /\ RowTextAt(i) = "03 Jun" /\ RowTextAt(j) = "03 Jun"
         /\ PersistedIs(RowKeyAt(i), "No availability")
         /\ PersistedIs(RowKeyAt(j), "03 Jun")
         /\ delivered[i] = 1 /\ delivered[j] = 1
         /\ NextLoads.map[RowKeyAt(i)] = "03 Jun"

---------------------------------------------------------------------------
(* C4 *)

\* C4 as claimed: at the end of every run, each entity the loop has
\* evaluated is persisted with its latest status.  (Runs ended by the
\* TypeError of the state update are left aside.)
C4_EveryEvaluatedRowPersisted ==
    pc = "exit" /\ raised # "TypeError"
        => \A i \in RowIdx :
              TrackedRow(i) /\ i < idx /\ LastRowOf(i)
                  => /\ HasItem(NextLoads, RowKeyAt(i))
                     /\ NextLoads.map[RowKeyAt(i)] = RowTextAt(i)

\* C4 amended: every run that exits with 0 has persisted, for each tracked
\* entity with a row, the status of its last row (sentinel and empty values
\* included, notified or not) under its normalized key, and what the next
\* run loads is the state the run held in memory.  A run that a fetch, a
\* send or a state update ends with an exception persists nothing.
C4_CompletedRunPersists ==
    /\ ExitedWith(0) =>
         /\ NextLoads = last_state
         /\ \A i \in RowIdx :
              TrackedRow(i) /\ LastRowOf(i)
                  => /\ HasItem(NextLoads, RowKeyAt(i))
                     /\ NextLoads.map[RowKeyAt(i)] = RowTextAt(i)
    /\ Failed => stateFile = startFile

\* A finished run persisted a sentinel for one entity, for which nothing
\* was sent, and a date for another, for which a notification went out.
C4_Witness ==
    /\ ExitedWith(0)
    /\ \E i, j \in RowIdx :
         /\ TrackedRow(i) /\ TrackedRow(j)
         /\ RowTextAt(i) = "No availability" /\ calls[i] = 0
         /\ RowTextAt(j) = "03 Jun" /\ delivered[j] = 1
         /\ NextLoads.map[RowKeyAt(i)] = "No availability"
         /\ NextLoads.map[RowKeyAt(j)] = "03 Jun"

---------------------------------------------------------------------------
(* C5 *)

\* Some tracked entity has no row on the page
SomeTargetMissing ==
    \E j \in 1..Len(targets) : \A i \in RowIdx : ~(TrackedRow(i) /\ RowKeyAt(i) = targets[j])

\* C5 as claimed: a run whose page lacks a tracked entity does not raise and
\* exits with 0.  (Runs ended by the TypeError of the state update are left
\* aside.)
C5_MissingEntityRunExitsZero ==
    pc = "exit" /\ FetchedOk /\ SomeTargetMissing /\ raised # "TypeError"
        => exitCode = 0

\* C5 amended: a tracked entity without a row never makes the run raise.  A
\* run whose page has no row of any tracked entity exits with 0; a run that
\* got its page and exits with non-zero was ended by the send or the state
\* update of a row of a tracked entity; and a run that exits with 0 has
\* evaluated every tracked entity that has a row: notification delivered
\* when actionable, last status persisted.
C5_MissingEntityTolerated ==
    /\ pc = "exit" /\ FetchedOk /\ (\A i \in RowIdx : ~TrackedRow(i)) => exitCode = 0
    /\ Failed /\ FetchedOk => idx \in RowIdx /\ TrackedRow(idx)
    /\ ExitedWith(0) =>
         \A i \in RowIdx :
             TrackedRow(i)
                 => /\ IsActionable(RowTextAt(i)) => delivered[i] = 1
                    /\ LastRowOf(i) =>
                         /\ HasItem(NextLoads, RowKeyAt(i))
                         /\ NextLoads.map[RowKeyAt(i)] = RowTextAt(i)

\* A finished run tracked two entities, found an actionable row of the
\* second one only, notified and persisted it.
C5_Witness ==
    /\ ExitedWith(0)
    /\ Len(targets) = 2
    /\ SomeTargetMissing
    /\ \E i \in RowIdx :
         /\ TrackedRow(i) /\ RowKeyAt(i) = targets[2]
         /\ RowTextAt(i) = "03 Jun"
         /\ delivered[i] = 1
         /\ NextLoads.map[RowKeyAt(i)] = "03 Jun"

---------------------------------------------------------------------------
(* C6 *)

\* The state file held a JSON object of strings when the run started
FlatStringObject(file) ==
    /\ file.kind = "json"
    /\ file.val.kind = "dict"
    /\ \A k \in DOMAIN file.val.map : file.val.map[k] # JNum

\* C6 as claimed: the state file never makes a run fail.  Whatever the
\* file held when the run started (nothing, text that is no JSON, JSON that
\* is no object of strings), the run ends with non-zero only by an
\* exception of the targets, the fetch or the send, never by the TypeError
\* of an update of the loaded state.
C6_StateFileNeverFatal ==
    pc = "exit" /\ ~FlatStringObject(startFile) /\ exitCode # 0
        => raised \in {"RuntimeError", "RequestException"}

---------------------------------------------------------------------------
(* C7 *)

\* C7: with TELEGRAM_TOKEN or CHAT_ID empty no POST is ever issued and
\* nothing is delivered, and a run that called send_telegram, or whose page
\* held an actionable row of a tracked entity, exits with non-zero.
C7_MissingCredentials ==
    MissingCredentials =>
        /\ \A i \in RowIdx : posts[i] = 0 /\ delivered[i] = 0
        /\ pc = "exit" /\ (\E i \in RowIdx : calls[i] >= 1)
              => exitCode # 0 /\ raised = "RuntimeError"
        /\ pc = "exit" /\ (\E i \in RowIdx : TrackedRow(i) /\ IsActionable(RowTextAt(i)))
              => exitCode # 0

\* A run with a token and no chat id called send_telegram for an actionable
\* row and ended with RuntimeError.
C7_Witness ==
    /\ pc = "exit"
    /\ TELEGRAM_TOKEN # "" /\ CHAT_ID = ""
    /\ raised = "RuntimeError"
    /\ exitCode = 1
    /\ \E i \in RowIdx : calls[i] = 1 /\ posts[i] = 0

---------------------------------------------------------------------------
(* C8 *)

\* C8 as claimed: a run whose page has no <tr> at all exits with non-zero
\* and leaves the state file as it was.
C8_NoRowsIsFatal ==
    pc = "exit" /\ FetchedOk /\ all_rows = <<>>
        => exitCode # 0 /\ stateFile = startFile

\* C8 amended: a page without any <tr> is not fatal.  The run sends
\* nothing, exits with 0, and writes the state it loaded back to the state
\* file (so an absent or unparsable file becomes the JSON of the empty
\* mapping).
C8_NoRowsIsTotalMiss ==
    pc = "exit" /\ FetchedOk /\ all_rows = <<>>
        => /\ exitCode = 0
           /\ raised = "none"
           /\ stateFile = JsonText(load_last_state(startFile))

\* A run got a page without rows while the state file was unparsable, and
\* left the JSON of the empty mapping.
C8_Witness ==
    /\ pc = "exit"
    /\ FetchedOk
    /\ all_rows = <<>>
    /\ startFile = Garbage
    /\ stateFile = JsonText(EmptyDict)
    /\ exitCode = 0

---------------------------------------------------------------------------
(* C9 *)

---------------------------------------------------------------------------
(* C10 *)

\* C10 as claimed: the key of a key is that key, and a name and a variant
\* of it that differs only in letter case and in decorative characters
\* have the same key.
C10_IdempotentCaseInsensitive ==
    /\ npc = "twice" => k2 = k1
    /\ npc \in {"once", "twice"} => kvar = k1

====
